---- MODULE Spec2Model ----
(***************************************************************************)
(* The Huntington-Hill animation of ec-apportionment-pyqt: the Qt window   *)
(* (App) with its File menu, and the plots (ECPlot) it creates, each with  *)
(* its own list of per-state records stepped by FuncAnimation's timer.     *)
(*                                                                         *)
(* Floats.  priority = pop * (1 / sqrt(reps * fut_reps)) is kept as the    *)
(* pair (pop, reps * fut_reps) and compared exactly by cross               *)
(* multiplication of the squares (pop > 0 in every list that is stepped);  *)
(* pop_per_rep = pop / reps is kept as the fraction (pop, reps) and        *)
(* compared by cross multiplication.  Within the bounds below the IEEE     *)
(* doubles order and tie exactly as these exact values do.                 *)
(***************************************************************************)
EXTENDS Integers, Sequences, FiniteSets, TLC

VARIABLES main_plot, plots, file_menu, central, app, error

vars == <<main_plot, plots, file_menu, central, app, error>>

(* Bounds of the model. *)
MaxEntities == 2
MaxFrames == 3

(* frames: int = 385 *)
frames == 385

-----------------------------------------------------------------------------
(* Input: the CSV files the dialog can return. *)

EntityNames == <<"A", "B", "A", "B">>

RowsOfPops(pops) == [i \in 1..Len(pops) |-> <<EntityNames[((i - 1) % 4) + 1], pops[i]>>]

PopValues == {0, 1, 2}

PopSeqs == UNION {[1..n -> PopValues] : n \in 0..MaxEntities}

Scenario == [rows |-> <<<<"A", 200>>, <<"B", 100>>>>]

Negative == [rows |-> <<<<"A", 1>>, <<"B", -1>>>>]

Trio == [rows |-> <<<<"A", 7>>, <<"B", 5>>, <<"C", 3>>>>]

Files == {[rows |-> RowsOfPops(p)] : p \in PopSeqs} \cup {Scenario, Negative, Trio}

extract_csv(f) == f.rows

-----------------------------------------------------------------------------
(* tools.parse_states *)

parse_states_raises(rows) ==
    \/ Len(rows) = 0
    \/ \E i \in 1..Len(rows) : rows[i][2] <= 0

Priority(pop, reps) == [pop |-> pop, rad |-> reps * (reps + 1)]

PopPerRep(pop, reps) == [num |-> pop, den |-> reps]

parse_states(rows) ==
    [i \in 1..Len(rows) |->
        [name |-> rows[i][1], pop |-> rows[i][2], reps |-> 1,
         pop_per_rep |-> PopPerRep(rows[i][2], 1),
         priority |-> Priority(rows[i][2], 1),
         max_pri |-> FALSE]]

(* float comparison a > b of two priorities *)
PriGT(a, b) == a.pop * a.pop * b.rad > b.pop * b.pop * a.rad

extract_priority_tuple(t) == t[2].priority

-----------------------------------------------------------------------------
(* ECPlot.animate *)

AddRepKeepFlag(l) ==
    [i \in 1..Len(l) |->
        IF l[i].max_pri THEN [l[i] EXCEPT !.reps = l[i].reps + 1] ELSE l[i]]

AddRep(l) ==
    [i \in 1..Len(l) |->
        IF l[i].max_pri
        THEN [l[i] EXCEPT !.reps = l[i].reps + 1, !.max_pri = FALSE]
        ELSE l[i]]

CalcPriority(l) ==
    [i \in 1..Len(l) |->
        [l[i] EXCEPT !.priority = Priority(l[i].pop, l[i].reps),
                     !.pop_per_rep = PopPerRep(l[i].pop, l[i].reps)]]

(* Python's max(): a scan that keeps the current best and replaces it only *)
(* by a strictly greater key, so the first maximum wins.                   *)
RECURSIVE MaxScan(_, _, _)
MaxScan(l, best, i) ==
    IF i > Len(l) THEN best
    ELSE IF PriGT(extract_priority_tuple(<<i, l[i]>>),
                  extract_priority_tuple(<<best, l[best]>>))
         THEN MaxScan(l, i, i + 1)
         ELSE MaxScan(l, best, i + 1)

RECURSIVE MaxScanLast(_, _, _)
MaxScanLast(l, best, i) ==
    IF i > Len(l) THEN best
    ELSE IF ~PriGT(extract_priority_tuple(<<best, l[best]>>),
                   extract_priority_tuple(<<i, l[i]>>))
         THEN MaxScanLast(l, i, i + 1)
         ELSE MaxScanLast(l, best, i + 1)

max_index_last(l) == MaxScanLast(l, 1, 2)

max_index(l) == MaxScan(l, 1, 2)

SetMaxPri(l) == [l EXCEPT ![max_index(l)].max_pri = TRUE]

RECURSIVE MaxByPriority(_, _, _)
MaxByPriority(l, best, i) ==
    IF i > Len(l) THEN best
    ELSE IF PriGT(l[i].priority, l[best].priority)
         THEN MaxByPriority(l, i, i + 1)
         ELSE MaxByPriority(l, best, i + 1)

RECURSIVE MaxByPriorityLast(_, _, _)
MaxByPriorityLast(l, best, i) ==
    IF i > Len(l) THEN best
    ELSE IF ~PriGT(l[best].priority, l[i].priority)
         THEN MaxByPriorityLast(l, i, i + 1)
         ELSE MaxByPriorityLast(l, best, i + 1)

max_state_last(l) == l[MaxByPriorityLast(l, 1, 2)].name

max_state(l) == l[MaxByPriority(l, 1, 2)].name

(* An animate that adds the seat in the call that selects the entity. *)
animate_list_immediate(l) ==
    LET m == SetMaxPri(CalcPriority(
                [i \in 1..Len(l) |-> [l[i] EXCEPT !.max_pri = FALSE]]))
    IN [i \in 1..Len(m) |->
          IF m[i].max_pri THEN [m[i] EXCEPT !.reps = m[i].reps + 1] ELSE m[i]]

animate_list(l) == SetMaxPri(CalcPriority(AddRep(l)))

Animate(p) ==
    /\ app = "running"
    /\ p \in 1..Len(plots)
    /\ plots[p].anim = "running"
    /\ plots[p].frame < frames
    /\ plots[p].frame < MaxFrames
    /\ LET l == animate_list(plots[p].state_info_list)
       IN plots' = [plots EXCEPT ![p] =
                       [@ EXCEPT !.state_info_list = l,
                                 !.seat_txt = plots[p].frame + 1,
                                 !.state_txt = max_state(l),
                                 !.frame = plots[p].frame + 1]]
    /\ UNCHANGED <<main_plot, file_menu, central, app, error>>

-----------------------------------------------------------------------------
(* ECPlot.__init__ and ECPlot.stop_anim *)

(* A constructor that keeps the list of the plot it replaces when the file *)
(* is the same one.                                                        *)
ECPlot_init_reuse(f) ==
    [file |-> f,
     state_info_list |->
        IF main_plot # 0 /\ plots[main_plot].file = f
        THEN plots[main_plot].state_info_list
        ELSE parse_states(extract_csv(f)),
     frame |-> 0,
     seat_txt |-> 1,
     state_txt |-> "",
     anim |-> "running"]

ECPlot_init(f) ==
    [file |-> f,
     state_info_list |-> parse_states(extract_csv(f)),
     frame |-> 0,
     seat_txt |-> 1,
     state_txt |-> "",
     anim |-> "running"]

stop_anim(ps, p) == [ps EXCEPT ![p].anim = "stopped"]

-----------------------------------------------------------------------------
(* App *)

removeAction(menu, a) == SelectSeq(menu, LAMBDA x : x # a)

RECURSIVE IndexOf(_, _, _)
IndexOf(menu, a, i) ==
    IF i > Len(menu) THEN i
    ELSE IF menu[i] = a THEN i ELSE IndexOf(menu, a, i + 1)

insertAction(menu, before, a) ==
    LET m == removeAction(menu, a)
        k == IndexOf(m, before, 1)
    IN SubSeq(m, 1, k - 1) \o <<a>> \o SubSeq(m, k, Len(m))

init_file_menu == <<"open", "quit">>

Init ==
    /\ main_plot = 0
    /\ plots = <<>>
    /\ file_menu = init_file_menu
    /\ central = FALSE
    /\ app = "running"
    /\ error = "none"

(* An exception leaving a pyqtSlot: PyQt either aborts the process or, with *)
(* an excepthook installed, reports it and goes on.                        *)
Unhandled(e) ==
    /\ error' = e
    /\ app' \in {"running", "aborted"}

(* The Open action is reached through the File menu or through the "Select *)
(* Data" button, which the central widget covers while a plot is shown.    *)
OpenEnabled ==
    /\ app = "running"
    /\ \/ ~central
       \/ \E i \in 1..Len(file_menu) : file_menu[i] = "open"

open_dialog_cancel ==
    /\ OpenEnabled
    /\ UNCHANGED vars

open_dialog_menu(menu) == insertAction(removeAction(menu, "open"), "quit", "restart")

(* The ECPlot objects still referenced when plot_graphs builds the next one: *)
(* the one main_plot holds.  Older ones are garbage.                       *)
Referenced == IF main_plot = 0 THEN <<>> ELSE <<plots[main_plot]>>

plot_graphs_ok(f) ==
    /\ plots' = Append(Referenced, ECPlot_init(f))
    /\ main_plot' = Len(Referenced) + 1
    /\ central' = TRUE
    /\ UNCHANGED <<app, error>>

plot_graphs_goes_on(f) ==
    /\ plots' = Append(Referenced, ECPlot_init(f))
    /\ main_plot' = Len(Referenced) + 1
    /\ central' = TRUE
    /\ UNCHANGED <<app, error>>

plot_graphs_raises(f) ==
    /\ Unhandled("InvalidInputError")
    /\ UNCHANGED <<plots, main_plot, central>>

open_dialog(f) ==
    /\ OpenEnabled
    /\ file_menu' = open_dialog_menu(file_menu)
    /\ IF parse_states_raises(extract_csv(f))
       THEN plot_graphs_raises(f)
       ELSE plot_graphs_ok(f)

on_restart_menu(menu) == removeAction(insertAction(menu, "quit", "open"), "restart")

on_restart_no_stop(ps, p) == ps

on_restart_stop(ps, p) == stop_anim(ps, p)

on_restart ==
    /\ app = "running"
    /\ \E i \in 1..Len(file_menu) : file_menu[i] = "restart"
    /\ IF main_plot = 0
       THEN /\ Unhandled("AttributeError")
            /\ UNCHANGED <<main_plot, plots, file_menu, central>>
       ELSE /\ plots' = on_restart_stop(plots, main_plot)
            /\ IF ~central
               THEN /\ Unhandled("AttributeError")
                    /\ UNCHANGED <<main_plot, file_menu, central>>
               ELSE /\ central' = FALSE
                    /\ file_menu' = on_restart_menu(file_menu)
                    /\ UNCHANGED <<main_plot, app, error>>

on_quit ==
    /\ app = "running"
    /\ \E i \in 1..Len(file_menu) : file_menu[i] = "quit"
    /\ plots' = IF main_plot # 0 THEN stop_anim(plots, main_plot) ELSE plots
    /\ app' = "quit"
    /\ UNCHANGED <<main_plot, file_menu, central, error>>

Next ==
    \/ \E f \in Files : open_dialog(f)
    \/ open_dialog_cancel
    \/ on_restart
    \/ on_quit
    \/ \E p \in DOMAIN plots : Animate(p)

Spec == Init /\ [][Next]_vars

-----------------------------------------------------------------------------
(* Properties *)

RECURSIVE SumReps(_, _)
SumReps(l, i) == IF i > Len(l) THEN 0 ELSE l[i].reps + SumReps(l, i + 1)

Flagged(l) == {i \in 1..Len(l) : l[i].max_pri}

(* a's priority pop / sqrt(reps * (reps + 1)) is greater than b's *)
Higher(a, b) ==
    a.pop * a.pop * b.reps * (b.reps + 1) > b.pop * b.pop * a.reps * (a.reps + 1)

SamePriority(a, b) == ~Higher(a, b) /\ ~Higher(b, a)

FirstMax(l, i) ==
    /\ \A j \in 1..Len(l) : ~Higher(l[j], l[i])
    /\ \A j \in 1..(i - 1) : Higher(l[i], l[j])

(* The step is one call of animate on plot p. *)
AnimateStep(p) ==
    /\ Len(plots') = Len(plots)
    /\ central' = central
    /\ app' = app
    /\ plots'[p].frame = plots[p].frame + 1

(* C1: once the step with 0-based index k has completed, the seats of all *)
(* entities sum to entity_count + k + 1 (frame counts the completed       *)
(* steps, so k + 1 = frame).                                              *)
C1_SumAfterStep ==
    \A p \in DOMAIN plots :
        plots[p].frame >= 1 =>
            SumReps(plots[p].state_info_list, 1)
                = Len(plots[p].state_info_list) + plots[p].frame

(* C2: for A(200), B(100) the state after the third step has A.seats = 3  *)
(* and B.seats = 2.                                                       *)
C2_ScenarioFinal ==
    \A p \in DOMAIN plots :
        (plots[p].file = Scenario /\ plots[p].frame = 3) =>
            /\ plots[p].state_info_list[1].reps = 3
            /\ plots[p].state_info_list[2].reps = 2

(* C3: after every step the selected entity is the one of greatest        *)
(* priority pop / sqrt(seats * (seats + 1)) at the current seat counts,   *)
(* and among entities that share the maximum the lowest index; no other   *)
(* entity is selected.                                                    *)
C3_Selection ==
    \A p \in DOMAIN plots :
        plots[p].frame >= 1 =>
            LET l == plots[p].state_info_list
            IN /\ Flagged(l) # {}
               /\ \A i \in Flagged(l) : FirstMax(l, i)

C3_Witness ==
    \E p \in DOMAIN plots :
        LET l == plots[p].state_info_list
        IN /\ plots[p].frame >= 2
           /\ \E i, j \in 1..Len(l) :
                /\ i < j
                /\ l[i].max_pri
                /\ l[i].reps > 1
                /\ SamePriority(l[i], l[j])

(* C4: in one step no seat count decreases, at most one entity's count    *)
(* changes, it changes by exactly +1, and that entity is the one selected *)
(* in that step.                                                          *)
C4_SeatsStep ==
    [][\A p \in DOMAIN plots :
          AnimateStep(p) =>
            LET l == plots[p].state_info_list
                m == plots'[p].state_info_list
                changed == {i \in 1..Len(l) : m[i].reps # l[i].reps}
            IN /\ \A i \in 1..Len(l) : m[i].reps >= l[i].reps
               /\ Cardinality(changed) <= 1
               /\ \A i \in changed : m[i].reps = l[i].reps + 1 /\ m[i].max_pri]_vars

(* C5: never more than one entity is marked selected, and every completed *)
(* step leaves exactly one marked.                                        *)
C5_OneSelected ==
    \A p \in DOMAIN plots :
        /\ Cardinality(Flagged(plots[p].state_info_list)) <= 1
        /\ plots[p].frame >= 1 =>
              Cardinality(Flagged(plots[p].state_info_list)) = 1

C5_Witness ==
    \E p \in DOMAIN plots :
        LET l == plots[p].state_info_list
        IN /\ plots[p].frame = MaxFrames
           /\ Cardinality(Flagged(l)) = 1
           /\ \E i, j \in 1..Len(l) : i # j /\ SamePriority(l[i], l[j])

C7_PopPerRepPost ==
    \A p \in DOMAIN plots :
        plots[p].frame >= 1 =>
            \A i \in 1..Len(plots[p].state_info_list) :
                LET e == plots[p].state_info_list[i]
                    seats == IF e.max_pri THEN e.reps + 1 ELSE e.reps
                IN e.pop_per_rep.num * seats = e.pop * e.pop_per_rep.den

(* C8: the name shown in the "State:" text is the name of the entity the  *)
(* step marked as selected, the lowest index among the highest priority.  *)
C8_StateTxt ==
    \A p \in DOMAIN plots :
        plots[p].frame >= 1 =>
            LET l == plots[p].state_info_list
            IN \A i \in 1..Len(l) :
                  (l[i].max_pri \/ FirstMax(l, i)) => plots[p].state_txt = l[i].name

C8_Witness ==
    \E p \in DOMAIN plots :
        LET l == plots[p].state_info_list
        IN /\ plots[p].frame >= 1
           /\ \E i, j \in 1..Len(l) :
                /\ i < j
                /\ l[i].max_pri
                /\ SamePriority(l[i], l[j])
                /\ l[i].name # l[j].name
                /\ plots[p].state_txt = l[i].name

NewRun == main_plot' # main_plot \/ (central' /\ ~central)

Rebuilt(plot) ==
    /\ plot.frame = 0
    /\ plot.anim = "running"
    /\ Len(plot.state_info_list) = Len(plot.file.rows)
    /\ \A i \in 1..Len(plot.state_info_list) :
          /\ plot.state_info_list[i].reps = 1
          /\ ~plot.state_info_list[i].max_pri
          /\ plot.state_info_list[i].name = plot.file.rows[i][1]
          /\ plot.state_info_list[i].pop = plot.file.rows[i][2]

C11_OneCallLate ==
    [][\A p \in DOMAIN plots :
          /\ AnimateStep(p) =>
                LET l == plots[p].state_info_list
                    m == plots'[p].state_info_list
                IN /\ \A i \in 1..Len(l) :
                        m[i].reps = l[i].reps + (IF l[i].max_pri THEN 1 ELSE 0)
                   /\ plots[p].frame = 0 => \A i \in 1..Len(l) : m[i].reps = 1
                   /\ Cardinality(Flagged(l)) <= 1
                   /\ Cardinality(Flagged(m)) = 1
                   /\ SumReps(m, 1) = Len(m) + plots'[p].frame - 1
          /\ (~NewRun /\ ~AnimateStep(p)) =>
                plots'[p].state_info_list = plots[p].state_info_list
          /\ (NewRun /\ p = main_plot) =>
                plots'[1].state_info_list = plots[p].state_info_list]_vars

C11_Witness ==
    \E p \in DOMAIN plots :
        LET l == plots[p].state_info_list
        IN /\ p # main_plot
           /\ plots[p].anim = "stopped"
           /\ plots[p].frame >= 2
           /\ Cardinality(Flagged(l)) = 1
           /\ SumReps(l, 1) = Len(l) + plots[p].frame - 1

InMenu(a) == \E i \in 1..Len(file_menu) : file_menu[i] = a

(* C12: while the application runs, the File menu holds exactly one of    *)
(* Open and Restart, and Restart only when main_plot holds an ECPlot.     *)
C12_MenuInvariant ==
    app = "running" =>
        /\ InMenu("open") # InMenu("restart")
        /\ InMenu("restart") => main_plot # 0

====
